---- MODULE Spec2Model ----
(***************************************************************************)
(* Backtest harness of rep87/BTC: the leak-free ReplayWindow               *)
(* (projectx/replay/window.py) and the BacktestEngine ledger and run loop  *)
(* (projectx/sim/engine.py).                                               *)
(*                                                                         *)
(* Timestamps are whole hours (integers).  A DataFrame is the set of its   *)
(* index timestamps (the index is sorted and unique); the open and close   *)
(* columns the engine reads are functions of the timestamp.  Python floats *)
(* are modelled as exact rationals [n, d] in lowest terms with d > 0, so   *)
(* the arithmetic is the real-number arithmetic of the code without        *)
(* rounding.                                                               *)
(***************************************************************************)
EXTENDS Integers, Sequences, FiniteSets, TLC

VARIABLES
    df,            \* ReplayWindow._df / the frame given to the engine: set of timestamps
    opens,         \* "open" column of the evaluation rows
    closes,        \* "close" column of the evaluation rows
    eval_start,    \* ReplayWindow.eval_start
    eval_end,      \* ReplayWindow.eval_end
    step_delta,    \* ReplayWindow.step_delta, in hours
    pointer,       \* ReplayWindow.pointer
    ret,           \* the last ReplayWindow call and the rows it returned
    config,        \* BacktestEngine.config (SimConfig)
    position,      \* BacktestEngine.position
    cash,          \* BacktestEngine.cash
    status,        \* BacktestEngine.status
    fills,         \* BacktestEngine.fills
    state_events,  \* BacktestEngine._state_events
    pc,            \* position of run(): "init", "loop", "curve", "done"
    ai_input,      \* the AgentInput of the last agent invocation
    last,          \* trace record of the last loop iteration of run()
    equity_curve,  \* the equity curve returned by run()
    metrics,       \* the metrics returned by run()
    ledger_log,    \* history: (time, cash, position) after each execution that filled
    stepped,       \* history: rows returned by step() since the last reset, in call order
    raw,           \* a raw decision dict handed to a normalizer
    norm,          \* the outcome of the last normalizer call on raw
    fetch          \* BinanceFapiKlinesSource.fetch: its locals and its position

winVars == <<df, opens, closes, eval_start, eval_end, step_delta, pointer>>
engVars == <<config, position, cash, status, fills, state_events, pc,
             ai_input, last, equity_curve, metrics, ledger_log>>
normVars == <<raw, norm>>
vars == <<df, opens, closes, eval_start, eval_end, step_delta, pointer, ret,
          config, position, cash, status, fills, state_events, pc,
          ai_input, last, equity_curve, metrics, ledger_log, stepped, raw, norm, fetch>>

(***************************************************************************)
(* Bounds of the model.                                                    *)
(***************************************************************************)
MaxT == 3          \* timestamps are the hours 0 .. MaxT-1
MaxStep == 2       \* step_hours ranges over 1 .. MaxStep

Times == 0 .. (MaxT - 1)
Prices == {1, 2}   \* open/close prices of the evaluation rows
NoTime == -1       \* Python None for a timestamp

(***************************************************************************)
(* Exact rational arithmetic standing for Python float arithmetic.         *)
(***************************************************************************)
Abs(x) == IF x < 0 THEN -x ELSE x

RECURSIVE GCD(_, _)
GCD(a, b) == IF b = 0 THEN a ELSE GCD(b, a % b)

Norm(n, d) ==
    LET g == GCD(Abs(n), d)
    IN  [n |-> n \div g, d |-> d \div g]

R(k) == [n |-> k, d |-> 1]
Frac(a, b) == Norm(a, b)
Zero == R(0)
One == R(1)

\* A float too small to change any other nonzero float of a run it is added to,
\* such as 1e-300 (d = -1; n = 1 for the positive one, n = -1 for its negative):
\* the sum of it and a nonzero float rounds to that float, its product with a
\* nonzero float is again too small to count
Tiny == [n |-> 1, d |-> -1]
NegTiny == [n |-> -1, d |-> -1]
IsTiny(x) == x.d = -1

RAdd(x, y) ==
    IF IsTiny(x)
    THEN IF y.n = 0 THEN x
         ELSE IF IsTiny(y) THEN (IF x = y THEN x ELSE Zero)
         ELSE y
    ELSE IF IsTiny(y) THEN (IF x.n = 0 THEN y ELSE x)
    ELSE LET g == GCD(x.d, y.d)
         IN  Norm(x.n * (y.d \div g) + y.n * (x.d \div g), (x.d \div g) * y.d)
RNeg(x) == [n |-> -x.n, d |-> x.d]
RSub(x, y) == RAdd(x, RNeg(y))
RMul(x, y) ==
    IF x.n = 0 \/ y.n = 0 THEN Zero
    ELSE IF IsTiny(x) \/ IsTiny(y)
    THEN (IF (x.n > 0) = (y.n > 0) THEN Tiny ELSE NegTiny)
    ELSE LET g1 == GCD(Abs(x.n), y.d)
             g2 == GCD(Abs(y.n), x.d)
         IN  [n |-> (x.n \div g1) * (y.n \div g2), d |-> (x.d \div g2) * (y.d \div g1)]
\* x / y for y # 0 (every division of the code is guarded against a zero divisor)
\* and y not tiny (no run of the model divides by a tiny float)
RDiv(x, y) ==
    IF y.n > 0 THEN RMul(x, [n |-> y.d, d |-> y.n])
    ELSE RMul(x, [n |-> -y.d, d |-> -y.n])
RLt(x, y) ==
    IF IsTiny(x)
    THEN IF IsTiny(y) THEN x.n < y.n
         ELSE IF x.n > 0 THEN y.n > 0 ELSE y.n >= 0
    ELSE IF IsTiny(y) THEN (IF y.n > 0 THEN x.n <= 0 ELSE x.n < 0)
    ELSE LET g == GCD(x.d, y.d)
         IN  x.n * (y.d \div g) < y.n * (x.d \div g)
RLe(x, y) == ~RLt(y, x)
RAbs(x) == [n |-> Abs(x.n), d |-> x.d]
RMax(x, y) == IF RLt(x, y) THEN y ELSE x
RMin(x, y) == IF RLt(y, x) THEN y ELSE x

\* Non-finite floats: d = 0 marks nan (n = 0), +inf (n = 1) and -inf (n = -1)
NaN == [n |-> 0, d |-> 0]
IsFinite(x) == x.d # 0
PosInf == [n |-> 1, d |-> 0]
NegInf == [n |-> -1, d |-> 0]
\* x < y on floats: false when either side is nan
FLt(x, y) ==
    IF x = NaN \/ y = NaN THEN FALSE
    ELSE IF ~IsFinite(x) THEN x = NegInf /\ y # NegInf
    ELSE IF ~IsFinite(y) THEN y = PosInf
    ELSE RLt(x, y)

SetMax(S) == CHOOSE m \in S : \A t \in S : t <= m
SetMin(S) == CHOOSE m \in S : \A t \in S : m <= t

\* the rows of a frame in index order
RECURSIVE SortedSeq(_)
SortedSeq(S) ==
    IF S = {} THEN <<>>
    ELSE LET m == SetMin(S) IN <<m>> \o SortedSeq(S \ {m})

(***************************************************************************)
(* ReplayWindow (replay/window.py).                                        *)
(***************************************************************************)
\* faulty variant of get_context: the rows before the pointer
get_context_before_pointer == {t \in df : t < pointer}

\* faulty variant of ctor_error: the step is not validated
ctor_error_range_only(start, end, step_hours) ==
    IF start >= end THEN "ValueError: eval_start must be before eval_end"
    ELSE "none"

\* __init__: the exception raised on the arguments, "none" when it returns
ctor_error(start, end, step_hours) ==
    IF start >= end THEN "ValueError: eval_start must be before eval_end"
    ELSE IF step_hours <= 0 THEN "ValueError: step_hours must be positive"
    ELSE "none"

\* get_context(): self._df[self._df.index < self.eval_start]
get_context == {t \in df : t < eval_start}

\* faulty variant of revealed: the row at the pointer is included
revealed_inclusive(ptr) == {t \in df : t >= eval_start /\ t <= ptr}

\* the selection of get_revealed(), for a pointer value ptr
revealed(ptr) == {t \in df : t >= eval_start /\ t < ptr}

\* faulty variant of get_revealed: the whole evaluation range, whatever the pointer
get_revealed_all == {t \in df : t >= eval_start /\ t < eval_end}

\* faulty variant of get_revealed: the lower bound eval_start is forgotten
get_revealed_with_context == {t \in df : t < pointer}

\* get_revealed(): rows with eval_start <= index < pointer
get_revealed == revealed(pointer)

\* is_done(): pointer >= eval_end
is_done == pointer >= eval_end

\* faulty variant of step_end: the end is not clamped to eval_end
step_end_unclamped == pointer + step_delta

\* faulty variant of step_pointer: the pointer advances even when the window is done
step_pointer_unguarded == pointer + step_delta

\* step(): the window end and the chunk of a call made while not done
step_end == IF pointer + step_delta < eval_end THEN pointer + step_delta ELSE eval_end
\* faulty variant of step_chunk: the row at the window end belongs to the chunk
step_chunk_through_end ==
    IF is_done THEN {} ELSE {t \in df : t >= pointer /\ t <= step_end}
\* faulty variant of step_chunk: the chunk starts at eval_start, not at the pointer
step_chunk_from_start ==
    IF is_done THEN {} ELSE {t \in df : t >= eval_start /\ t < step_end}
step_chunk == IF is_done THEN {} ELSE {t \in df : t >= pointer /\ t < step_end}
step_pointer == IF is_done THEN pointer ELSE step_end

WStep ==
    /\ ret' = [op |-> "step", rows |-> step_chunk, ptr |-> pointer]
    /\ pointer' = step_pointer
    /\ stepped' = stepped \o SortedSeq(step_chunk)
    /\ UNCHANGED <<df, opens, closes, eval_start, eval_end, step_delta>>
    /\ UNCHANGED engVars
    /\ UNCHANGED normVars
    /\ UNCHANGED fetch

\* faulty variant of reset_pointer: reset() leaves the pointer where it is
reset_pointer_stays == pointer

\* reset(): the pointer after the call
reset_pointer == eval_start

WReset ==
    /\ pointer' = reset_pointer
    /\ ret' = [op |-> "reset", rows |-> {}, ptr |-> pointer]
    /\ stepped' = <<>>
    /\ UNCHANGED <<df, opens, closes, eval_start, eval_end, step_delta>>
    /\ UNCHANGED engVars
    /\ UNCHANGED normVars
    /\ UNCHANGED fetch

WGetContext ==
    /\ ret' = [op |-> "get_context", rows |-> get_context, ptr |-> pointer]
    /\ UNCHANGED winVars
    /\ UNCHANGED engVars
    /\ UNCHANGED <<stepped, raw, norm, fetch>>

WGetRevealed ==
    /\ ret' = [op |-> "get_revealed", rows |-> get_revealed, ptr |-> pointer]
    /\ UNCHANGED winVars
    /\ UNCHANGED engVars
    /\ UNCHANGED <<stepped, raw, norm, fetch>>

(***************************************************************************)
(* sim/types.py: Position, Fill, StepDecision, the clamps.                 *)
(***************************************************************************)
\* Position(): the dataclass defaults
NewPosition ==
    [side |-> "flat", qty |-> Zero, entry_price |-> Zero, leverage |-> 1,
     margin |-> Zero, entry_time |-> NoTime]

\* An optional value: <<>> is Python None, <<x>> is the value x
None == <<>>
Some(x) == <<x>>

\* int(x) of a float: truncation toward zero
Trunc(x) == IF x.n >= 0 THEN x.n \div x.d ELSE -((-x.n) \div x.d)

IntMax(a, b) == IF a >= b THEN a ELSE b
IntMin(a, b) == IF a <= b THEN a ELSE b

\* int(value) raises ValueError on nan and OverflowError on an infinity
clamp_leverage_raises(value) == value # None /\ ~IsFinite(value[1])

\* the value clamp_leverage returns when int(value) does not raise
clamp_leverage(value, min_leverage, max_leverage, default_leverage) ==
    IF value = None THEN default_leverage
    ELSE IntMax(min_leverage, IntMin(max_leverage, Trunc(value[1])))

\* float(max(0.0, min(1.0, float(value)))): min and max keep their first
\* argument unless the second compares strictly below / above it
clamp_size_pct(value, default_size_pct) ==
    LET v == IF value = None THEN default_size_pct ELSE value[1]
        m == IF FLt(v, One) THEN v ELSE One
    IN  IF FLt(Zero, m) THEN m ELSE Zero

(***************************************************************************)
(* sim/engine.py: decision parsing.                                        *)
(***************************************************************************)
\* str.lower() on the action strings the agent may return
Lower(s) ==
    CASE s = "LONG" -> "long"
      [] s = "Close" -> "close"
      [] s = " Long " -> " long "
      [] s = "Long" -> "long"
      [] s = "Risk_On" -> "risk_on"
      [] s = "INVALID_ACTION" -> "invalid_action"
      [] OTHER -> s

\* str.strip() on the same strings
Strip(s) ==
    CASE s = " Long " -> "Long"
      [] s = " long " -> "long"
      [] OTHER -> s

\* decision.get("action", "hold"): the action field is None when the key is missing
get_action(decision) == IF decision.action = None THEN "hold" ELSE decision.action[1]

VALID_ACTIONS == {"hold", "long", "short", "close"}

map_action(raw_action) ==
    LET action == Lower(raw_action)
    IN  CASE action = "risk_on" -> "long"
          [] action = "risk_off" -> "short"
          [] action = "observe_up" -> "long"
          [] action = "observe_down" -> "short"
          [] OTHER -> action

\* _parse_decision raises exactly when clamp_leverage does
parse_decision_raises(decision) == clamp_leverage_raises(decision.leverage)

parse_decision(decision) ==
    LET mapped == map_action(get_action(decision))
        action == IF mapped \in {"hold", "long", "short", "close"} THEN mapped ELSE "hold"
    IN  [action |-> action,
         size_pct |-> clamp_size_pct(decision.size_pct, config.default_size_pct),
         leverage |-> clamp_leverage(decision.leverage, config.min_leverage,
                                     config.max_leverage, config.default_leverage)]

(***************************************************************************)
(* agents/decision.py: normalize_decision.                                 *)
(***************************************************************************)
ACTION_ALIASES(raw_action) ==
    CASE raw_action = "buy" -> "long"
      [] raw_action = "sell" -> "short"
      [] raw_action = "exit" -> "close"
      [] OTHER -> raw_action

normalize_decision_raises(decision_dict, cfg) == clamp_leverage_raises(decision_dict.leverage)

\* the pair (StepDecision, warning); the warning is the text
\* "Unknown action '<raw_action>' mapped to hold", kept as the raw_action it names
normalize_decision(decision_dict, cfg) ==
    LET raw_action == Lower(Strip(get_action(decision_dict)))
        mapped == ACTION_ALIASES(raw_action)
    IN  [decision |->
            [action |-> IF mapped \in VALID_ACTIONS THEN mapped ELSE "hold",
             size_pct |-> clamp_size_pct(decision_dict.size_pct, cfg.default_size_pct),
             leverage |-> clamp_leverage(decision_dict.leverage, cfg.min_leverage,
                                         cfg.max_leverage, cfg.default_leverage)],
         warning |-> IF mapped \in VALID_ACTIONS THEN None ELSE Some(raw_action)]

(***************************************************************************)
(* sim/engine.py: the ledger.  A ledger value L carries the four fields    *)
(* the execution methods read and write: cash, position, fills, events     *)
(* (_state_events).                                                        *)
(***************************************************************************)
\* abs(x) < 1e-12, with 10^12 = 10^6 * 10^6 taken in two integer divisions
AbsLtTol(x) == IsTiny(x) \/ Abs(x.n) <= ((x.d - 1) \div 1000000) \div 1000000

copy_position(p) ==
    [side |-> p.side, qty |-> p.qty, entry_price |-> p.entry_price,
     leverage |-> p.leverage, margin |-> p.margin, entry_time |-> p.entry_time]

equity_at_price(c, p, price) ==
    IF p.side = "flat" \/ RLe(p.qty, Zero) THEN c
    ELSE IF p.side = "long"
         THEN RAdd(c, RMul(p.qty, RSub(price, p.entry_price)))
         ELSE RAdd(c, RMul(p.qty, RSub(p.entry_price, price)))

\* faulty variant of target_qty: the leverage is not applied
target_qty_unlevered(equity, size_pct, leverage, price) ==
    LET margin == RMax(Zero, RMul(equity, size_pct))
    IN  [qty |-> IF RLe(price, Zero) THEN Zero ELSE RDiv(margin, price),
         margin |-> margin]

target_qty(equity, size_pct, leverage, price) ==
    LET margin == RMax(Zero, RMul(equity, size_pct))
        notional == RMul(margin, R(leverage))
    IN  [qty |-> IF RLe(price, Zero) THEN Zero ELSE RDiv(notional, price),
         margin |-> margin]

\* faulty variant of record_fill: the fill is put at the head of the log
record_fill_prepend(L, fill, position_after) ==
    [L EXCEPT !.fills = <<fill>> \o L.fills,
              !.events = Append(L.events,
                                [ts |-> fill.time, cash |-> L.cash,
                                 position |-> copy_position(position_after)])]

record_fill(L, fill, position_after) ==
    [L EXCEPT !.fills = Append(L.fills, fill),
              !.events = Append(L.events,
                                [ts |-> fill.time, cash |-> L.cash,
                                 position |-> copy_position(position_after)])]

\* faulty variant of close_pnl: the long formula for both sides
close_pnl_long_only(p, fill_price) == RMul(p.qty, RSub(fill_price, p.entry_price))

\* realized PnL of closing the whole position p at fill_price
close_pnl(p, fill_price) ==
    IF p.side = "long"
    THEN RMul(p.qty, RSub(fill_price, p.entry_price))
    ELSE RMul(p.qty, RSub(p.entry_price, fill_price))

\* faulty variant of close_position: the quantity is zeroed in place, the side kept
close_position_keeps_side(L, fill_time, fill_price) ==
    IF L.position.side = "flat" \/ RLe(L.position.qty, Zero) THEN L
    ELSE
      LET p == L.position
          pnl == close_pnl(p, fill_price)
          notional == RMul(p.qty, fill_price)
          fee == RMul(config.fee_rate, notional)
          cash2 == RAdd(L.cash, RSub(pnl, fee))
          L2 == [L EXCEPT !.cash = cash2, !.position = [p EXCEPT !.qty = Zero]]
      IN  record_fill(L2,
                      [time |-> fill_time, side |-> p.side, action |-> "close",
                       price |-> fill_price, qty |-> p.qty, notional |-> notional,
                       fee |-> fee, equity_after |-> cash2],
                      L2.position)

close_position(L, fill_time, fill_price) ==
    IF L.position.side = "flat" \/ RLe(L.position.qty, Zero) THEN L
    ELSE
      LET p == L.position
          pnl == close_pnl(p, fill_price)
          notional == RMul(p.qty, fill_price)
          fee == RMul(config.fee_rate, notional)
          cash2 == RAdd(L.cash, RSub(pnl, fee))
          L2 == [L EXCEPT !.cash = cash2, !.position = NewPosition]
      IN  record_fill(L2,
                      [time |-> fill_time, side |-> p.side, action |-> "close",
                       price |-> fill_price, qty |-> p.qty, notional |-> notional,
                       fee |-> fee, equity_after |-> cash2],
                      L2.position)

open_position(L, side, qty, leverage, margin, fill_time, fill_price, action) ==
    IF RLe(qty, Zero) THEN L
    ELSE
      LET notional == RMul(qty, fill_price)
          fee == RMul(config.fee_rate, notional)
          cash2 == RSub(L.cash, fee)
          p2 == [side |-> side, qty |-> qty, entry_price |-> fill_price,
                 leverage |-> leverage, margin |-> margin, entry_time |-> fill_time]
          L2 == [L EXCEPT !.cash = cash2, !.position = p2]
      IN  record_fill(L2,
                      [time |-> fill_time, side |-> side, action |-> action,
                       price |-> fill_price, qty |-> qty, notional |-> notional,
                       fee |-> fee, equity_after |-> cash2],
                      L2.position)

\* faulty variant of resize_fee: abs() forgotten
resize_fee_signed(delta_qty, fill_price) ==
    RMul(RMul(config.fee_rate, delta_qty), fill_price)

\* fee of a resize: charged on the changed quantity
resize_fee(delta_qty, fill_price) ==
    RMul(RMul(config.fee_rate, RAbs(delta_qty)), fill_price)

\* faulty variant of weighted_entry: plain mean of the two prices
weighted_entry_plain_mean(current_qty, entry_price, delta_qty, fill_price) ==
    RDiv(RAdd(entry_price, fill_price), R(2))

\* entry price after an increase by delta_qty at fill_price
weighted_entry(current_qty, entry_price, delta_qty, fill_price) ==
    RDiv(RAdd(RMul(current_qty, entry_price), RMul(delta_qty, fill_price)),
         RAdd(current_qty, delta_qty))

resize_position(L, tqty, target_leverage, target_margin, fill_time, fill_price) ==
    LET p == L.position
        current_qty == p.qty
        delta_qty == RSub(tqty, current_qty)
    IN
    IF AbsLtTol(delta_qty) THEN L
    ELSE
      LET fee == resize_fee(delta_qty, fill_price)
          cash1 == RSub(L.cash, fee)
      IN
      IF RLt(Zero, delta_qty)
      THEN
        LET new_qty == RAdd(current_qty, delta_qty)
            p2 == [p EXCEPT !.qty = new_qty,
                            !.entry_price = weighted_entry(current_qty, p.entry_price,
                                                           delta_qty, fill_price),
                            !.leverage = target_leverage, !.margin = target_margin]
            L2 == [L EXCEPT !.cash = cash1, !.position = p2]
        IN  record_fill(L2,
                        [time |-> fill_time, side |-> p2.side, action |-> "resize",
                         price |-> fill_price, qty |-> p2.qty,
                         notional |-> RMul(p2.qty, fill_price),
                         fee |-> fee, equity_after |-> cash1],
                        p2)
      ELSE
        LET reduce_qty == RAbs(delta_qty)
            realized == IF p.side = "long"
                        THEN RMul(reduce_qty, RSub(fill_price, p.entry_price))
                        ELSE RMul(reduce_qty, RSub(p.entry_price, fill_price))
            cash2 == RAdd(cash1, realized)
            q2 == RMax(Zero, RSub(current_qty, reduce_qty))
        IN
        IF RLe(q2, Zero)
        THEN [L EXCEPT !.cash = cash2, !.position = NewPosition]
        ELSE
          LET p2 == [p EXCEPT !.qty = q2, !.leverage = target_leverage,
                              !.margin = target_margin]
              L2 == [L EXCEPT !.cash = cash2, !.position = p2]
          IN  record_fill(L2,
                          [time |-> fill_time, side |-> p2.side, action |-> "resize",
                           price |-> fill_price, qty |-> p2.qty,
                           notional |-> RMul(p2.qty, fill_price),
                           fee |-> fee, equity_after |-> cash2],
                          p2)

\* faulty variant of execute: a position on the other side is closed before the
\* target quantity is tested
execute_close_before_target_test(L, decision, fill_time, fill_price, equity_at_decision) ==
    IF decision.action = "hold" THEN L
    ELSE IF decision.action = "close" THEN close_position(L, fill_time, fill_price)
    ELSE
      LET target_side == decision.action
          tq == target_qty(equity_at_decision, decision.size_pct, decision.leverage,
                           fill_price)
          L1 == IF L.position.side \notin {"flat", target_side}
                THEN close_position(L, fill_time, fill_price) ELSE L
      IN
      IF RLe(tq.qty, Zero) THEN L1
      ELSE IF L1.position.side = "flat"
      THEN open_position(L1, target_side, tq.qty, decision.leverage, tq.margin,
                         fill_time, fill_price,
                         IF L.position.side = "flat" THEN "open" ELSE "flip")
      ELSE resize_position(L1, tq.qty, decision.leverage, tq.margin, fill_time, fill_price)

\* faulty variant of execute: a hold closes the open position
execute_hold_closes(L, decision, fill_time, fill_price, equity_at_decision) ==
    IF decision.action \in {"hold", "close"} THEN close_position(L, fill_time, fill_price)
    ELSE
      LET target_side == decision.action
          tq == target_qty(equity_at_decision, decision.size_pct, decision.leverage,
                           fill_price)
      IN
      IF RLe(tq.qty, Zero) THEN L
      ELSE IF L.position.side = "flat"
      THEN open_position(L, target_side, tq.qty, decision.leverage, tq.margin,
                         fill_time, fill_price, "open")
      ELSE IF L.position.side = target_side
      THEN resize_position(L, tq.qty, decision.leverage, tq.margin, fill_time, fill_price)
      ELSE open_position(close_position(L, fill_time, fill_price),
                         target_side, tq.qty, decision.leverage, tq.margin,
                         fill_time, fill_price, "flip")

\* faulty variant of execute: a flip opens the new side without closing the old one
execute_flip_without_close(L, decision, fill_time, fill_price, equity_at_decision) ==
    IF decision.action = "hold" THEN L
    ELSE IF decision.action = "close" THEN close_position(L, fill_time, fill_price)
    ELSE
      LET target_side == decision.action
          tq == target_qty(equity_at_decision, decision.size_pct, decision.leverage,
                           fill_price)
      IN
      IF RLe(tq.qty, Zero) THEN L
      ELSE IF L.position.side = "flat"
      THEN open_position(L, target_side, tq.qty, decision.leverage, tq.margin,
                         fill_time, fill_price, "open")
      ELSE IF L.position.side = target_side
      THEN resize_position(L, tq.qty, decision.leverage, tq.margin, fill_time, fill_price)
      ELSE open_position(L, target_side, tq.qty, decision.leverage, tq.margin,
                         fill_time, fill_price, "flip")

execute(L, decision, fill_time, fill_price, equity_at_decision) ==
    IF decision.action = "hold" THEN L
    ELSE IF decision.action = "close" THEN close_position(L, fill_time, fill_price)
    ELSE
      LET target_side == decision.action
          tq == target_qty(equity_at_decision, decision.size_pct, decision.leverage,
                           fill_price)
      IN
      IF RLe(tq.qty, Zero) THEN L
      ELSE IF L.position.side = "flat"
      THEN open_position(L, target_side, tq.qty, decision.leverage, tq.margin,
                         fill_time, fill_price, "open")
      ELSE IF L.position.side = target_side
      THEN resize_position(L, tq.qty, decision.leverage, tq.margin, fill_time, fill_price)
      ELSE open_position(close_position(L, fill_time, fill_price),
                         target_side, tq.qty, decision.leverage, tq.margin,
                         fill_time, fill_price, "flip")

(***************************************************************************)
(* sim/engine.py: _build_equity_curve and sim/metrics.py: compute_metrics. *)
(***************************************************************************)
\* float division as pandas does it: x / 0 is nan or a signed infinity
FDiv(x, y) ==
    IF y.n = 0
    THEN [n |-> IF x.n > 0 THEN 1 ELSE IF x.n < 0 THEN -1 ELSE 0, d |-> 0]
    ELSE RDiv(x, y)
FSub(x, y) == IF IsFinite(x) THEN RSub(x, y) ELSE x
FMul(x, y) == IF IsFinite(x) THEN RMul(x, y) ELSE x

\* the inner loop "for cash_after, pos_after in events.get(ts, [])"
RECURSIVE apply_events(_, _, _)
apply_events(ts, st, evs) ==
    IF evs = <<>> THEN st
    ELSE apply_events(ts,
                      IF Head(evs).ts = ts
                      THEN [cash |-> Head(evs).cash,
                            position |-> copy_position(Head(evs).position)]
                      ELSE st,
                      Tail(evs))

\* faulty variant of bar_equity: the unrealized PnL is left out
bar_equity_cash_only(st, close_price) == st.cash

bar_equity(st, close_price) ==
    IF st.position.side = "flat" \/ RLe(st.position.qty, Zero) THEN st.cash
    ELSE IF st.position.side = "long"
         THEN RAdd(st.cash, RMul(st.position.qty, RSub(close_price, st.position.entry_price)))
         ELSE RAdd(st.cash, RMul(st.position.qty, RSub(st.position.entry_price, close_price)))

\* the loop over eval_df.iterrows(): rows so far, and whether it broke on bankruptcy
RECURSIVE curve_rows(_, _, _, _)
curve_rows(bars, st, rows, evs) ==
    IF bars = <<>> THEN [rows |-> rows, bankrupt |-> FALSE]
    ELSE
      LET ts == Head(bars)
          st2 == apply_events(ts, st, evs)
          close_price == R(closes[ts])
          equity == bar_equity(st2, close_price)
          rows2 == Append(rows, [timestamp |-> ts, equity |-> equity,
                                 position_side |-> st2.position.side,
                                 price |-> close_price])
      IN  IF ~config.allow_negative_equity /\ RLe(equity, Zero)
          THEN [rows |-> rows2, bankrupt |-> TRUE]
          ELSE curve_rows(Tail(bars), st2, rows2, evs)

\* curve["equity"].cummax() up to row i
RECURSIVE running_max(_, _)
running_max(rows, i) ==
    IF i = 1 THEN rows[1].equity
    ELSE RMax(running_max(rows, i - 1), rows[i].equity)

with_drawdown(rows) ==
    [i \in 1 .. Len(rows) |->
        [timestamp |-> rows[i].timestamp, equity |-> rows[i].equity,
         position_side |-> rows[i].position_side, price |-> rows[i].price,
         drawdown |-> FSub(FDiv(rows[i].equity, running_max(rows, i)), One)]]

build_equity_curve(bars, evs, status0) ==
    LET r == curve_rows(bars,
                        [cash |-> config.start_equity, position |-> NewPosition],
                        <<>>, evs)
    IN  [curve |-> with_drawdown(r.rows),
         status |-> IF r.bankrupt THEN "bankrupt" ELSE status0]

\* faulty variant of CountActions: every fill is counted
CountActions_all(fs, A) == Len(fs)

CountActions(fs, A) == Cardinality({i \in 1 .. Len(fs) : fs[i].action \in A})

\* Series.min(): nan entries are skipped
RECURSIVE drawdown_min(_, _)
drawdown_min(curve, i) ==
    IF i = 0 THEN NaN
    ELSE LET m == drawdown_min(curve, i - 1)
             x == curve[i].drawdown
         IN  IF x = NaN THEN m
             ELSE IF m = NaN THEN x
             ELSE IF ~IsFinite(x) THEN x
             ELSE IF ~IsFinite(m) THEN m
             ELSE RMin(m, x)

\* faulty variant of total_return_pct: the fraction, not the percentage
total_return_fraction(start, end) ==
    IF start.n # 0 THEN RSub(RDiv(end, start), One) ELSE NaN

\* ((end_equity / start_equity) - 1.0) * 100 if start_equity != 0 else math.nan
total_return_pct(start, end) ==
    IF start.n # 0 THEN RMul(RSub(RDiv(end, start), One), R(100)) ELSE NaN

compute_metrics(curve, fs, st) ==
    IF curve = <<>>
    THEN [total_return_pct |-> Zero, max_drawdown_pct |-> Zero, num_trades |-> 0,
          num_closes |-> 0, status |-> st, start_equity |-> Zero, end_equity |-> Zero]
    ELSE
      LET start == curve[1].equity
          end == curve[Len(curve)].equity
      IN  [total_return_pct |-> total_return_pct(start, end),
           max_drawdown_pct |-> FMul(drawdown_min(curve, Len(curve)), R(100)),
           num_trades |-> CountActions(fs, {"open", "flip", "resize"}),
           num_closes |-> CountActions(fs, {"close"}),
           status |-> st,
           start_equity |-> start,
           end_equity |-> end]

(***************************************************************************)
(* Inputs: the SimConfig values and the decisions an agent may return.     *)
(***************************************************************************)
FeeRates == {Zero, Frac(1, 8)}

\* SimConfig(start_equity=0.0, fee_rate=0.0): a run that starts without equity
ZeroEquityConfig ==
    [start_equity |-> Zero, fee_rate |-> Zero, step_hours |-> 4,
     max_leverage |-> 10, min_leverage |-> 1, default_size_pct |-> Frac(1, 10),
     default_leverage |-> 1, allow_negative_equity |-> FALSE]

Configs ==
    [start_equity : {R(100)}, fee_rate : FeeRates, step_hours : {4},
     max_leverage : {10}, min_leverage : {1}, default_size_pct : {Frac(1, 10)},
     default_leverage : {1}, allow_negative_equity : BOOLEAN]
    \cup {ZeroEquityConfig}

DefaultConfig ==
    [start_equity |-> R(100), fee_rate |-> Frac(1, 8), step_hours |-> 4,
     max_leverage |-> 10, min_leverage |-> 1, default_size_pct |-> Frac(1, 10),
     default_leverage |-> 1, allow_negative_equity |-> FALSE]

\* the decision of InvalidActionAgent (tests/test_sim_engine_trades.py)
InvalidDecision ==
    [action |-> Some("INVALID_ACTION"), size_pct |-> Some(R(5)), leverage |-> Some(R(999))]

\* a decision under an alias of agents/decision.py
AliasDecision ==
    [action |-> Some("buy"), size_pct |-> Some(One), leverage |-> Some(R(2))]

\* a decision whose leverage is the float nan
NanLeverageDecision ==
    [action |-> Some("long"), size_pct |-> None, leverage |-> Some(NaN)]

AgentDecisions ==
    {[action |-> Some("hold"), size_pct |-> None, leverage |-> None],
     [action |-> Some("close"), size_pct |-> None, leverage |-> None],
     [action |-> Some("long"), size_pct |-> Some(Zero), leverage |-> None],
     [action |-> Some("long"), size_pct |-> Some(Frac(1, 2)), leverage |-> None],
     [action |-> Some("long"), size_pct |-> Some(One), leverage |-> Some(R(2))],
     [action |-> Some("short"), size_pct |-> Some(One), leverage |-> Some(R(2))],
     InvalidDecision, AliasDecision, NanLeverageDecision}

\* raw decision dicts for the normalizers: string actions (or none), numeric or
\* missing size_pct and leverage, non-finite floats included
RawActions ==
    {None, Some("hold"), Some("long"), Some("short"), Some("close"), Some("LONG"),
     Some("Close"), Some(" Long "), Some("buy"), Some("sell"), Some("exit"),
     Some("risk_on"), Some("Risk_On"), Some("observe_down"), Some("INVALID_ACTION")}

RawSizes ==
    {None, Some(R(-1)), Some(Zero), Some(Frac(1, 2)), Some(One), Some(R(5)),
     Some(NaN), Some(PosInf), Some(NegInf)}

RawLeverages ==
    {None, Some(R(-2)), Some(Zero), Some(R(3)), Some(Frac(5, 2)), Some(R(10)),
     Some(R(999)), Some(NaN), Some(PosInf)}

RawDecisions == [action : RawActions, size_pct : RawSizes, leverage : RawLeverages]

\* SimConfig values for the normalizers; SimConfig validates nothing, so the
\* defaults need not lie inside the clamping ranges
NormConfigs ==
    [start_equity : {R(100)}, fee_rate : {Zero}, step_hours : {4},
     max_leverage : {10}, min_leverage : {1}, default_size_pct : {Frac(1, 10), R(2)},
     default_leverage : {1, 20}, allow_negative_equity : {FALSE}]

(***************************************************************************)
(* BacktestEngine.run (sim/engine.py).                                     *)
(***************************************************************************)
\* the engine is constructed on the frame the window replays
df_eval == df

\* faulty variant of eval_df: the bar at eval_end belongs to the evaluation rows
eval_df_through_end == {t \in df_eval : t >= eval_start /\ t <= eval_end}

\* eval_df: df_eval restricted to [eval_start, eval_end)
eval_df == {t \in df_eval : t >= eval_start /\ t < eval_end}

\* the rows whose open price run() can read: a fill bar is an evaluation row that
\* follows another one (next_rows holds only rows after a chunk's last row)
FillRows == {t \in eval_df : \E u \in eval_df : u < t}

\* faulty variant of next_rows: the bar right after the decision bar is skipped
next_rows_skipping(decision_time) == {t \in eval_df : t > decision_time + 1}

\* next_rows: the evaluation rows after the decision bar
next_rows(decision_time) == {t \in eval_df : t > decision_time}

Ledger == [cash |-> cash, position |-> position, fills |-> fills, events |-> state_events]

NoInput == [context_df |-> {}, revealed_df |-> {}, new_chunk_df |-> {}]

NoIter ==
    [iter |-> 0, calls |-> 0, invoked |-> FALSE, executed |-> FALSE, raw_action |-> "hold",
     decision |-> [action |-> "hold", size_pct |-> Zero, leverage |-> 1],
     decision_time |-> NoTime, decision_price |-> Zero, equity_at_decision |-> Zero,
     fill_time |-> NoTime, fill_price |-> Zero,
     cash_before |-> Zero, position_before |-> NewPosition, nfills_before |-> 0]

\* run() up to the loop: window.reset(), eval_df, the empty-frame return
RunStart ==
    /\ pc = "init"
    /\ pointer' = reset_pointer
    /\ ret' = [op |-> "reset", rows |-> {}, ptr |-> pointer]
    /\ stepped' = <<>>
    /\ IF eval_df = {}
       THEN /\ equity_curve' = <<>>
            /\ metrics' = compute_metrics(<<>>, <<>>, "ok")
            /\ pc' = "done"
       ELSE /\ pc' = "loop"
            /\ UNCHANGED <<equity_curve, metrics>>
    /\ UNCHANGED <<df, opens, closes, eval_start, eval_end, step_delta>>
    /\ UNCHANGED <<config, position, cash, status, fills, state_events, ai_input, last,
                   ledger_log, raw, norm, fetch>>

\* faulty variant of LoopCond: the status is not tested
LoopCond_ignoring_status == ~is_done

\* the while condition of the decision loop
LoopCond == ~is_done /\ status = "ok"

\* an iteration whose chunk is empty: "continue" before the agent is invoked
IterEmptyChunk ==
    /\ pc = "loop"
    /\ LoopCond
    /\ step_chunk = {}
    /\ pointer' = step_pointer
    /\ ret' = [op |-> "step", rows |-> step_chunk, ptr |-> pointer]
    /\ stepped' = stepped \o SortedSeq(step_chunk)
    /\ last' = [NoIter EXCEPT !.iter = last.iter + 1, !.calls = last.calls]
    /\ UNCHANGED <<df, opens, closes, eval_start, eval_end, step_delta>>
    /\ UNCHANGED <<config, position, cash, status, fills, state_events, pc,
                   ai_input, equity_curve, metrics, ledger_log, raw, norm, fetch>>

\* an iteration with a non-empty chunk: the agent is invoked, the decision parsed,
\* and executed at the next evaluation bar when there is one; Returns holds the
\* decisions the agent may return on this call
Iterate(Returns) ==
    /\ pc = "loop"
    /\ LoopCond
    /\ step_chunk # {}
    /\ LET chunk == step_chunk
           decision_time == SetMax(chunk)
           decision_price == R(closes[decision_time])
           equity_at_decision == equity_at_price(cash, position, decision_price)
           nxt == next_rows(decision_time)
           trace == [iter |-> last.iter + 1, calls |-> last.calls + 1,
                     invoked |-> TRUE, executed |-> FALSE,
                     raw_action |-> NoIter.raw_action,
                     decision |-> NoIter.decision,
                     decision_time |-> decision_time,
                     decision_price |-> decision_price,
                     equity_at_decision |-> equity_at_decision,
                     fill_time |-> NoTime, fill_price |-> Zero,
                     cash_before |-> cash, position_before |-> position,
                     nfills_before |-> Len(fills)]
       IN
       /\ pointer' = step_pointer
       /\ ret' = [op |-> "get_revealed", rows |-> revealed(step_pointer),
                  ptr |-> step_pointer]
       /\ stepped' = stepped \o SortedSeq(chunk)
       /\ ai_input' = [context_df |-> get_context,
                       revealed_df |-> revealed(step_pointer),
                       new_chunk_df |-> chunk]
       /\ IF nxt = {}
          THEN \* whatever the agent returned is dropped at "continue"
               /\ last' = trace
               /\ UNCHANGED <<position, cash, status, fills, state_events, ledger_log>>
          ELSE \E d \in {x \in Returns : ~parse_decision_raises(x)} :
                 LET decision == parse_decision(d)
                     fill_time == SetMin(nxt)
                     fill_price == R(opens[fill_time])
                 IN  \E L2 \in {execute(Ledger, decision, fill_time, fill_price,
                                         equity_at_decision)} :
                     /\ last' = [trace EXCEPT !.executed = TRUE,
                                              !.raw_action = get_action(d),
                                              !.decision = decision,
                                              !.fill_time = fill_time,
                                              !.fill_price = fill_price]
                     /\ cash' = L2.cash
                     /\ position' = L2.position
                     /\ fills' = L2.fills
                     /\ state_events' = L2.events
                     /\ ledger_log' =
                            IF Len(L2.fills) > Len(fills)
                            THEN Append(ledger_log,
                                        [time |-> fill_time, cash |-> L2.cash,
                                         position |-> L2.position])
                            ELSE ledger_log
                     /\ status' = IF ~config.allow_negative_equity
                                     /\ RLe(equity_at_price(L2.cash, L2.position, fill_price),
                                            Zero)
                                  THEN "bankrupt" ELSE status
    /\ UNCHANGED <<df, opens, closes, eval_start, eval_end, step_delta>>
    /\ UNCHANGED <<config, pc, equity_curve, metrics, raw, norm, fetch>>

\* the iteration under an agent free to return any of AgentDecisions
IterDecide == Iterate(AgentDecisions)

\* an iteration in which the agent returns a decision on which _parse_decision
\* raises: the exception leaves run(), which returns nothing
IterRaise ==
    /\ pc = "loop"
    /\ LoopCond
    /\ step_chunk # {}
    /\ \E d \in {x \in AgentDecisions : parse_decision_raises(x)} :
          last' = [NoIter EXCEPT !.iter = last.iter + 1, !.calls = last.calls + 1,
                                 !.invoked = TRUE,
                                 !.raw_action = get_action(d),
                                 !.decision_time = SetMax(step_chunk),
                                 !.cash_before = cash, !.position_before = position,
                                 !.nfills_before = Len(fills)]
    /\ pointer' = step_pointer
    /\ ret' = [op |-> "get_revealed", rows |-> revealed(step_pointer),
               ptr |-> step_pointer]
    /\ stepped' = stepped \o SortedSeq(step_chunk)
    /\ ai_input' = [context_df |-> get_context,
                    revealed_df |-> revealed(step_pointer),
                    new_chunk_df |-> step_chunk]
    /\ pc' = "raised"
    /\ UNCHANGED <<df, opens, closes, eval_start, eval_end, step_delta>>
    /\ UNCHANGED <<config, position, cash, status, fills, state_events,
                   equity_curve, metrics, ledger_log, raw, norm, fetch>>

\* the loop has ended (window done, or bankrupt): equity curve, metrics, return
Finish ==
    /\ pc = "loop"
    /\ ~LoopCond
    /\ \E r \in {build_equity_curve(SortedSeq(eval_df), state_events, status)} :
           /\ equity_curve' = r.curve
           /\ status' = r.status
           /\ metrics' = compute_metrics(r.curve, fills, r.status)
    /\ pc' = "done"
    /\ UNCHANGED winVars
    /\ UNCHANGED <<ret, config, position, cash, fills, state_events, ai_input, last,
                   ledger_log, stepped, raw, norm, fetch>>

(***************************************************************************)
(* Specifications.                                                         *)
(***************************************************************************)
\* a constructed ReplayWindow over a frame, and a constructed engine
InitWindow ==
    /\ df \in SUBSET Times
    /\ eval_start \in Times
    /\ eval_end \in 1 .. MaxT
    /\ eval_start < eval_end
    /\ step_delta \in 1 .. MaxStep
    /\ pointer = eval_start
    /\ ret = [op |-> "init", rows |-> {}, ptr |-> eval_start]
    /\ stepped = <<>>

InitEngine ==
    /\ position = NewPosition
    /\ cash = config.start_equity
    /\ status = "ok"
    /\ fills = <<>>
    /\ state_events = <<>>
    /\ pc = "init"
    /\ ai_input = NoInput
    /\ last = NoIter
    /\ equity_curve = <<>>
    /\ metrics = compute_metrics(<<>>, <<>>, "ok")
    /\ ledger_log = <<>>

\* no normalizer call is in progress
NoRaw == [action |-> None, size_pct |-> None, leverage |-> None]
NoNorm == [fn |-> "none", raised |-> FALSE, decision |-> NoIter.decision, warning |-> None]

\* no fetch has been called
NoFetch ==
    [pc |-> "idle", start_ms |-> 0, end_ms |-> 0, current_start_ms |-> 0,
     backoff_seconds |-> 1, failures |-> 0, batches |-> 0,
     response |-> "none", slept |-> 0, failed_since_batch |-> 0, result |-> "none"]

Init ==
    /\ InitWindow
    /\ opens \in [FillRows -> Prices]
    /\ closes \in [eval_df -> Prices]
    /\ config \in Configs
    /\ InitEngine
    /\ raw = NoRaw
    /\ norm = NoNorm
    /\ fetch = NoFetch

Next == RunStart \/ IterEmptyChunk \/ IterDecide \/ IterRaise \/ Finish

Spec == Init /\ [][Next]_vars

\* the window alone, under any sequence of its calls
WInit ==
    /\ InitWindow
    /\ opens = [t \in FillRows |-> 1]
    /\ closes = [t \in eval_df |-> 1]
    /\ config = DefaultConfig
    /\ InitEngine
    /\ raw = NoRaw
    /\ norm = NoNorm
    /\ fetch = NoFetch

WNext == WStep \/ WReset \/ WGetContext \/ WGetRevealed

SpecWindow == WInit /\ [][WNext]_vars

\* ReplayWindow(df, eval_start, eval_end, step_hours) on arguments that may be
\* invalid: eval_start, eval_end and step_delta hold the arguments, and no window
\* exists (pointer is None) until the constructor has returned
ConstructorSteps == -1 .. MaxStep

CInit ==
    /\ df \in SUBSET Times
    /\ eval_start \in Times
    /\ eval_end \in 0 .. MaxT
    /\ step_delta \in ConstructorSteps
    /\ pointer = NoTime
    /\ ret = [op |-> "none", rows |-> {}, ptr |-> NoTime]
    /\ stepped = <<>>
    /\ opens = [t \in FillRows |-> 1]
    /\ closes = [t \in eval_df |-> 1]
    /\ config = DefaultConfig
    /\ InitEngine
    /\ raw = NoRaw
    /\ norm = NoNorm
    /\ fetch = NoFetch

\* ReplayWindow.__init__
WConstruct ==
    /\ ret.op = "none"
    /\ IF ctor_error(eval_start, eval_end, step_delta) # "none"
       THEN /\ ret' = [op |-> ctor_error(eval_start, eval_end, step_delta),
                       rows |-> {}, ptr |-> NoTime]
            /\ pointer' = pointer
       ELSE /\ ret' = [op |-> "init", rows |-> {}, ptr |-> eval_start]
            /\ pointer' = eval_start
    /\ UNCHANGED <<df, opens, closes, eval_start, eval_end, step_delta>>
    /\ UNCHANGED engVars
    /\ UNCHANGED <<stepped, raw, norm, fetch>>

CNext == WConstruct

SpecConstruct == CInit /\ [][CNext]_vars

\* the two normalizers as pure functions of a raw decision dict and a SimConfig
NInit ==
    /\ df = {}
    /\ eval_start = 0
    /\ eval_end = 1
    /\ step_delta = 1
    /\ pointer = eval_start
    /\ ret = [op |-> "init", rows |-> {}, ptr |-> eval_start]
    /\ stepped = <<>>
    /\ opens = [t \in FillRows |-> 1]
    /\ closes = [t \in eval_df |-> 1]
    /\ config \in NormConfigs
    /\ InitEngine
    /\ raw \in RawDecisions
    /\ norm = NoNorm
    /\ fetch = NoFetch

\* BacktestEngine._parse_decision(raw)
NParse ==
    /\ norm' = IF parse_decision_raises(raw)
               THEN [NoNorm EXCEPT !.fn = "_parse_decision", !.raised = TRUE]
               ELSE [fn |-> "_parse_decision", raised |-> FALSE,
                     decision |-> parse_decision(raw), warning |-> None]
    /\ UNCHANGED <<raw, ret, stepped, fetch>>
    /\ UNCHANGED winVars
    /\ UNCHANGED engVars

\* normalize_decision(raw, config)
NNormalize ==
    /\ norm' = IF normalize_decision_raises(raw, config)
               THEN [NoNorm EXCEPT !.fn = "normalize_decision", !.raised = TRUE]
               ELSE [fn |-> "normalize_decision", raised |-> FALSE,
                     decision |-> normalize_decision(raw, config).decision,
                     warning |-> normalize_decision(raw, config).warning]
    /\ UNCHANGED <<raw, ret, stepped, fetch>>
    /\ UNCHANGED winVars
    /\ UNCHANGED engVars

NNext == NParse \/ NNormalize

SpecNormalize == NInit /\ [][NNext]_vars

(***************************************************************************)
(* Properties.                                                             *)
(***************************************************************************)
\* the fills appended by the last loop iteration
NewFills == SubSeq(fills, last.nfills_before + 1, Len(fills))

\* the rows of the evaluation range
EvalBars == {t \in df : t >= eval_start /\ t < eval_end}

\* the rows handed to the agent at its last invocation
ShownRows == ai_input.context_df \cup ai_input.revealed_df \cup ai_input.new_chunk_df

\* C1: at every agent invocation whose decision reaches a fill bar, every row of
\* context_df, revealed_df and new_chunk_df handed to the agent is strictly
\* earlier than that fill bar.
C1_NoLookAhead ==
    (last.invoked /\ last.executed) => \A t \in ShownRows : t < last.fill_time

C1_Witness ==
    /\ last.invoked /\ last.executed
    /\ Len(fills) > last.nfills_before
    /\ ai_input.context_df # {}
    /\ ai_input.new_chunk_df # {}
    /\ ai_input.revealed_df # {}

\* C2: whatever the sequence of step(), reset(), get_context() and get_revealed()
\* calls, no row returned by get_context() or get_revealed() has a timestamp at
\* or after the window's current pointer.
C2_NoLeakage ==
    ret.op \in {"get_context", "get_revealed"} => \A t \in ret.rows : t < pointer

C2_Witness ==
    /\ ret.op = "get_revealed"
    /\ ret.rows # {}
    /\ \E t \in df : t >= pointer /\ t < eval_end
    /\ get_context # {}

C4_FlatIffZeroQty ==
    /\ (position.side = "flat") <=> (position.qty = Zero)
    /\ position.side \in {"long", "short"} => RLt(Zero, position.qty)
    /\ position.side \in {"flat", "long", "short"}

C4_Witness ==
    /\ position.side = "flat"
    /\ Len(fills) = 2
    /\ fills[1].action = "open"
    /\ fills[2].action = "close"

(***************************************************************************)
(* The quantities the ledger properties speak of, taken from the trace     *)
(* record of the last iteration.                                           *)
(***************************************************************************)
Opposite(side) == IF side = "long" THEN "short" ELSE "long"

\* the last iteration executed a long or short decision
ExecutedSide == last.executed /\ last.decision.action \in {"long", "short"}

\* cash plus the unrealized PnL of position p valued at price
MarkToMarket(c, p, price) ==
    IF p.side = "long" THEN RAdd(c, RMul(p.qty, RSub(price, p.entry_price)))
    ELSE IF p.side = "short" THEN RAdd(c, RMul(p.qty, RSub(p.entry_price, price)))
    ELSE c

\* equity at decision: valued at the last close of the decision chunk
DecisionEquity ==
    MarkToMarket(last.cash_before, last.position_before,
                 R(closes[SetMax(ai_input.new_chunk_df)]))

\* equity_at_decision * size_pct * leverage / fill_price
SizedQty ==
    RDiv(RMul(RMul(DecisionEquity, last.decision.size_pct), R(last.decision.leverage)),
         last.fill_price)

\* realized PnL of qty units of the position held before the iteration, at the fill price
RealizedOn(qty) ==
    IF last.position_before.side = "long"
    THEN RMul(qty, RSub(last.fill_price, last.position_before.entry_price))
    ELSE RMul(qty, RSub(last.position_before.entry_price, last.fill_price))

FeeOn(qty) == RMul(config.fee_rate, RMul(qty, last.fill_price))

LedgerUnchanged ==
    /\ cash = last.cash_before
    /\ position = last.position_before
    /\ Len(fills) = last.nfills_before

RECURSIVE SumFees(_)
SumFees(fs) == IF fs = <<>> THEN Zero ELSE RAdd(Head(fs).fee, SumFees(Tail(fs)))

\* C5: with allow_negative_equity = False, once a bar's mark-to-market equity is
\* <= 0 the run is bankrupt, the returned fill log has no fill later than that
\* bar and the equity curve has no row later than that bar.
C5_BankruptBarEndsRun ==
    (pc = "done" /\ ~config.allow_negative_equity) =>
        \A i \in 1 .. Len(equity_curve) :
            RLe(equity_curve[i].equity, Zero) =>
                /\ status = "bankrupt"
                /\ \A j \in 1 .. Len(fills) : fills[j].time <= equity_curve[i].timestamp
                /\ \A k \in 1 .. Len(equity_curve) :
                      equity_curve[k].timestamp <= equity_curve[i].timestamp

FlipDone ==
    /\ Len(NewFills) = 2
    /\ NewFills[1].action = "close"
    /\ NewFills[1].qty = last.position_before.qty
    /\ NewFills[2].action = "flip"
    /\ NewFills[1].time = NewFills[2].time
    /\ NewFills[1].price = NewFills[2].price
    /\ position.side = last.decision.action

\* C6 as stated: whenever a long or short decision is executed while the opposite
\* side is open, a 'close' fill for the whole old quantity and then a 'flip' fill
\* are appended, with the same time and price, and the position ends on the
\* decision's side.
C6_FlipAlways ==
    (ExecutedSide /\ last.position_before.side = Opposite(last.decision.action))
        => FlipDone

\* C6 amended: the same, for decisions whose target quantity is > 0.
C6_FlipWhenTargetPositive ==
    (/\ ExecutedSide
     /\ last.position_before.side = Opposite(last.decision.action)
     /\ RLt(Zero, SizedQty))
        => FlipDone

C6_Witness ==
    /\ ExecutedSide
    /\ last.position_before.side = "long"
    /\ position.side = "short"
    /\ Len(NewFills) = 2

\* C7: a long/short decision executed while flat opens qty = equity_at_decision *
\* size_pct * leverage / fill_price at entry_price = fill_price, takes exactly
\* fee_rate * qty * fill_price from cash and records one 'open' fill; with a
\* computed qty <= 0 nothing changes.
C7_OpenFromFlat ==
    (ExecutedSide /\ last.position_before.side = "flat") =>
        /\ last.equity_at_decision = DecisionEquity
        /\ IF RLe(SizedQty, Zero) THEN LedgerUnchanged
           ELSE /\ position.side = last.decision.action
                /\ position.qty = SizedQty
                /\ position.entry_price = last.fill_price
                /\ cash = RSub(last.cash_before, FeeOn(SizedQty))
                /\ Len(NewFills) = 1
                /\ NewFills[1].action = "open"

C7_Witness ==
    /\ ExecutedSide
    /\ last.position_before.side = "flat"
    /\ position.side = "long"
    /\ last.decision.leverage = 2
    /\ last.decision_price # last.fill_price
    /\ RLt(Zero, config.fee_rate)

\* C8: a close decision executed on an open position adds realized PnL minus
\* fee_rate * qty * fill_price to cash, leaves the position flat with qty 0 and
\* records one 'close' fill for the closed quantity.
C8_CloseRealizesPnL ==
    (last.executed /\ last.decision.action = "close"
        /\ last.position_before.side # "flat") =>
        /\ cash = RSub(RAdd(last.cash_before, RealizedOn(last.position_before.qty)),
                       FeeOn(last.position_before.qty))
        /\ position.side = "flat"
        /\ position.qty = Zero
        /\ Len(NewFills) = 1
        /\ NewFills[1].action = "close"
        /\ NewFills[1].qty = last.position_before.qty

C8_Witness ==
    /\ last.executed /\ last.decision.action = "close"
    /\ last.position_before.side = "short"
    /\ last.fill_price # last.position_before.entry_price
    /\ position.side = "flat"

ResizeDone ==
    LET old == last.position_before
        delta == RSub(SizedQty, old.qty)
    IN  /\ position.side = old.side
        /\ position.qty = SizedQty
        /\ Len(NewFills) = 1
        /\ NewFills[1].action = "resize"
        /\ IF RLt(Zero, delta)
           THEN /\ position.entry_price =
                      RDiv(RAdd(RMul(old.qty, old.entry_price),
                                RMul(delta, last.fill_price)),
                           SizedQty)
                /\ cash = RSub(last.cash_before, FeeOn(delta))
           ELSE /\ position.entry_price = old.entry_price
                /\ cash = RSub(RAdd(last.cash_before, RealizedOn(RNeg(delta))),
                               FeeOn(RNeg(delta)))

\* C9 as stated: a long/short decision executed while the same side is open with
\* a target quantity different from the current one resizes the position to the
\* target with one 'resize' fill, blending the entry price on an increase and
\* realizing PnL on the reduced quantity on a decrease.
C9_ResizeWheneverDifferent ==
    (/\ ExecutedSide
     /\ last.position_before.side = last.decision.action
     /\ SizedQty # last.position_before.qty)
        => ResizeDone

\* C9 for the targets _execute hands to _resize_position: the same, for a target
\* quantity that is > 0 and differs from the current quantity by at least 1e-12.
C9_ResizeWhenTargetPositive ==
    (/\ ExecutedSide
     /\ last.position_before.side = last.decision.action
     /\ RLt(Zero, SizedQty)
     /\ ~AbsLtTol(RSub(SizedQty, last.position_before.qty)))
        => ResizeDone

C9_Witness ==
    /\ ExecutedSide
    /\ last.position_before.side = last.decision.action
    /\ RLt(last.position_before.qty, position.qty)
    /\ position.entry_price # last.position_before.entry_price
    /\ position.entry_price # last.fill_price

\* C10: every open, close and flip fill carries fee = fee_rate * price * qty and a
\* resize fill fee = fee_rate * price * |target qty - previous qty|; the fees of
\* an execution are taken from cash in that execution; with fee_rate > 0 and a
\* positive price every fill has fee > 0.
C10_FeeOnChangedNotional ==
    /\ \A i \in 1 .. Len(fills) :
          /\ fills[i].action \in {"open", "close", "flip"} =>
                fills[i].fee = RMul(config.fee_rate, RMul(fills[i].price, fills[i].qty))
          /\ (RLt(Zero, config.fee_rate) /\ RLt(Zero, fills[i].price)) =>
                RLt(Zero, fills[i].fee)
    /\ last.executed =>
          LET old == last.position_before
              closed == \E i \in 1 .. Len(NewFills) : NewFills[i].action = "close"
              resized == \E i \in 1 .. Len(NewFills) : NewFills[i].action = "resize"
              realized == IF closed THEN RealizedOn(old.qty)
                          ELSE IF resized /\ RLt(position.qty, old.qty)
                               THEN RealizedOn(RSub(old.qty, position.qty))
                               ELSE Zero
          IN  /\ resized =>
                    /\ Len(NewFills) = 1
                    /\ NewFills[1].fee = FeeOn(RAbs(RSub(SizedQty, old.qty)))
              /\ NewFills # <<>> =>
                    /\ cash = RSub(RAdd(last.cash_before, realized),
                                   SumFees(NewFills))
                    /\ NewFills[Len(NewFills)].equity_after = cash

C10_Witness ==
    /\ last.executed
    /\ Len(NewFills) = 1
    /\ NewFills[1].action = "resize"
    /\ RLt(position.qty, last.position_before.qty)
    /\ RLt(Zero, NewFills[1].fee)

\* C11: every call of _parse_decision or normalize_decision on a raw decision
\* (any action string, any numeric or missing size_pct and leverage) returns
\* without raising a decision whose action is hold/long/short/close, whose
\* size_pct lies in [0, 1] and whose leverage is an integer within
\* [min_leverage, max_leverage].
C11_NormalizationTotalBounded ==
    norm.fn # "none" =>
        /\ ~norm.raised
        /\ norm.decision.action \in VALID_ACTIONS
        /\ IsFinite(norm.decision.size_pct)
        /\ RLe(Zero, norm.decision.size_pct)
        /\ RLe(norm.decision.size_pct, One)
        /\ norm.decision.leverage \in Int
        /\ config.min_leverage <= norm.decision.leverage
        /\ norm.decision.leverage <= config.max_leverage

\* C12: when the agent returns an unrecognized action, the decision is executed
\* as hold (no fill, ledger untouched) and the metrics returned by the run hold a
\* non-empty decision_warnings entry naming the action the agent returned.
C12_UnknownActionWarned ==
    (last.executed /\ last.raw_action = "INVALID_ACTION") =>
        /\ last.decision.action = "hold"
        /\ LedgerUnchanged
        /\ pc = "done" =>
              /\ "decision_warnings" \in DOMAIN metrics
              /\ \E i \in DOMAIN metrics.decision_warnings :
                     metrics.decision_warnings[i] = last.raw_action

\* the ledger (cash, position) the engine had after its last execution that
\* filled at or before bar ts; the start equity and a flat position before any
LedgerAt(ts) ==
    LET past == {k \in 1 .. Len(ledger_log) : ledger_log[k].time <= ts}
    IN  IF past = {}
        THEN [cash |-> config.start_equity, position |-> NewPosition]
        ELSE [cash |-> ledger_log[SetMax(past)].cash,
              position |-> ledger_log[SetMax(past)].position]

\* the run's curve stopped at a bar whose equity is <= 0
Truncated ==
    /\ ~config.allow_negative_equity
    /\ \E i \in 1 .. Len(equity_curve) : RLe(equity_curve[i].equity, Zero)

\* C13: in the returned equity curve the i-th row belongs to the i-th bar of the
\* evaluation range, its equity is cash + unrealized PnL at that bar's close and
\* its position_side the position's side, for the ledger as it stood after the
\* last fill at or before that bar; a curve not truncated by bankruptcy has one
\* row for every bar of the evaluation range.
C13_CurveReplaysLedger ==
    pc = "done" =>
        /\ Len(equity_curve) <= Cardinality(EvalBars)
        /\ \A i \in 1 .. Len(equity_curve) :
              LET ts == SortedSeq(EvalBars)[i]
                  st == LedgerAt(ts)
              IN  /\ equity_curve[i].timestamp = ts
                  /\ equity_curve[i].price = R(closes[ts])
                  /\ equity_curve[i].equity = MarkToMarket(st.cash, st.position, R(closes[ts]))
                  /\ equity_curve[i].position_side = st.position.side
        /\ ~Truncated => Len(equity_curve) = Cardinality(EvalBars)

C13_Witness ==
    /\ pc = "done"
    /\ Len(equity_curve) = 3
    /\ Len(fills) = 3
    /\ fills[2].time = fills[3].time
    /\ equity_curve[2].position_side # equity_curve[3].position_side
    /\ equity_curve[3].position_side # "flat"
    /\ equity_curve[3].equity # cash

\* C14: the fill log only grows by appending: every step of a run leaves the
\* fills already recorded in place and unchanged, and at every moment the fill
\* timestamps are non-decreasing in log order.
C14_AppendOnlyChronological ==
    /\ [][/\ Len(fills') >= Len(fills)
          /\ SubSeq(fills', 1, Len(fills)) = fills]_vars
    /\ [](\A i \in 1 .. Len(fills) : \A j \in 1 .. Len(fills) :
              i < j => fills[i].time <= fills[j].time)

C14_Witness ==
    /\ Len(fills) = 3
    /\ fills[1].time < fills[2].time
    /\ fills[2].time = fills[3].time
    /\ last.nfills_before = 1

\* C15: once status is bankrupt it stays bankrupt, and from then on no step of
\* the run steps the window or invokes the agent again (pointer, agent input and
\* iteration record stay as they are) and no fill is appended.
C15_BankruptTerminal ==
    [][status = "bankrupt" =>
          /\ status' = "bankrupt"
          /\ fills' = fills
          /\ pointer' = pointer
          /\ ai_input' = ai_input
          /\ last' = last]_vars

C15_Witness ==
    /\ pc = "done"
    /\ status = "bankrupt"
    /\ last.executed
    /\ ~is_done
    /\ \E t \in EvalBars : t >= pointer
    /\ Len(equity_curve) = Cardinality(EvalBars)

\* C16: a run with allow_negative_equity = False that ends with status bankrupt
\* has an equity curve whose last row has equity <= 0 and whose earlier rows
\* all have equity > 0.
C16_BankruptCurveEndsNonPositive ==
    (pc = "done" /\ ~config.allow_negative_equity /\ status = "bankrupt") =>
        /\ Len(equity_curve) >= 1
        /\ RLe(equity_curve[Len(equity_curve)].equity, Zero)
        /\ \A i \in 1 .. (Len(equity_curve) - 1) : RLt(Zero, equity_curve[i].equity)

\* min(pointer + step, eval_end) for the pointer value ptr
WindowEnd(ptr) == IF ptr + step_delta < eval_end THEN ptr + step_delta ELSE eval_end

\* C17: a step() call made while the window is not done returns exactly the rows
\* with timestamp in [pointer, min(pointer + step, eval_end)) and leaves the
\* pointer at min(pointer + step, eval_end); no returned row is before the old
\* pointer or at/after the new one.
C17_StepChunk ==
    (ret.op = "step" /\ ret.ptr < eval_end) =>
        /\ ret.rows = {t \in df : t >= ret.ptr /\ t < WindowEnd(ret.ptr)}
        /\ pointer = WindowEnd(ret.ptr)
        /\ \A t \in ret.rows : t >= ret.ptr /\ t < pointer

C17_Witness ==
    /\ ret.op = "step"
    /\ ret.ptr < eval_end
    /\ ret.rows # {}
    /\ pointer = eval_end
    /\ pointer < ret.ptr + step_delta
    /\ \E t \in df : t >= eval_end

\* C18: a step() call made when is_done() is true (pointer >= eval_end) returns
\* no row and leaves the pointer where it was.
C18_StepAfterDone ==
    (ret.op = "step" /\ ret.ptr >= eval_end) =>
        /\ ret.rows = {}
        /\ pointer = ret.ptr

C18_Witness ==
    /\ ret.op = "step"
    /\ ret.ptr >= eval_end
    /\ \E t \in df : t >= eval_end
    /\ \E t \in df : t >= eval_start /\ t < eval_end

\* C19: after any sequence of step() and reset() calls, get_revealed() returns
\* exactly the rows with timestamp in [eval_start, pointer), and these are, in
\* order, the rows of the chunks step() returned since the last reset.
C19_RevealedIsStepped ==
    ret.op = "get_revealed" =>
        /\ ret.rows = {t \in df : t >= eval_start /\ t < pointer}
        /\ SortedSeq(ret.rows) = stepped

C19_Witness ==
    /\ ret.op = "get_revealed"
    /\ Len(stepped) >= 2
    /\ pointer < eval_end
    /\ \E t \in df : t >= pointer

\* C20: get_context() returns exactly the rows with timestamp strictly before
\* eval_start, its result is the same before and after every step of the window,
\* and a get_context() or get_revealed() call leaves the pointer unchanged.
C20_ContextPure ==
    /\ [](ret.op = "get_context" => ret.rows = {t \in df : t < eval_start})
    /\ [](ret.op \in {"get_context", "get_revealed"} => pointer = ret.ptr)
    /\ [][get_context' = get_context]_vars

C20_Witness ==
    /\ ret.op = "get_context"
    /\ ret.rows # {}
    /\ pointer > eval_start
    /\ \E t \in df : t >= eval_start /\ t < pointer

\* the k-th chunk step() returns on a freshly constructed window
ConstructionChunk(k) ==
    {t \in df : /\ t >= eval_start + (k - 1) * step_delta
                /\ t < eval_start + k * step_delta
                /\ t < eval_end}

\* the rows of the first n chunks of a freshly constructed window, in order
RECURSIVE ConstructionRows(_)
ConstructionRows(n) ==
    IF n = 0 THEN <<>>
    ELSE ConstructionRows(n - 1) \o SortedSeq(ConstructionChunk(n))

\* the number of step() calls that moved the pointer from eval_start to ptr
StepsTo(ptr) == (ptr - eval_start + step_delta - 1) \div step_delta

\* C21: reset() puts the pointer at eval_start whatever the state it is called
\* in, and the chunks step() returns after a reset are, one after the other, the
\* chunks it returns after construction: the k-th step since the last reset
\* returns the k-th chunk of a fresh window.
C21_ResetReplays ==
    /\ ret.op = "reset" => (pointer = eval_start /\ stepped = <<>>)
    /\ (ret.op = "step" /\ ret.ptr < eval_end) =>
          /\ ret.rows = ConstructionChunk(StepsTo(pointer))
          /\ StepsTo(pointer) = StepsTo(ret.ptr) + 1
    /\ stepped = ConstructionRows(StepsTo(pointer))

C21_Witness ==
    /\ ret.op = "reset"
    /\ ret.ptr = eval_end
    /\ stepped = <<>>
    /\ Cardinality({t \in df : t >= eval_start /\ t < eval_end}) >= 2
    /\ step_delta = 1

\* C22: the constructor raises, and leaves no window behind, exactly when
\* eval_start >= eval_end or step_hours <= 0; on every other argument triple it
\* returns a window whose pointer is eval_start.
C22_ConstructorValidates ==
    ret.op # "none" =>
        IF eval_start >= eval_end \/ step_delta <= 0
        THEN ret.op # "init" /\ pointer = NoTime
        ELSE ret.op = "init" /\ pointer = eval_start

C22_Witness ==
    /\ ret.op \notin {"none", "init"}
    /\ eval_start < eval_end
    /\ step_delta = 0
    /\ df # {}

\* C23: an executed hold decision, whatever the position, and an executed close
\* decision while flat leave cash, position and the fill log exactly as they
\* were.
C23_HoldAndFlatCloseNoOp ==
    (/\ last.executed
     /\ \/ last.decision.action = "hold"
        \/ last.decision.action = "close" /\ last.position_before.side = "flat")
        => /\ cash = last.cash_before
           /\ position = last.position_before
           /\ NewFills = <<>>
           /\ Len(fills) = last.nfills_before

C23_Witness ==
    /\ last.executed
    /\ last.decision.action = "hold"
    /\ last.raw_action = "hold"
    /\ last.position_before.side = "short"
    /\ last.fill_price # last.position_before.entry_price
    /\ RLt(Zero, config.fee_rate)

\* a step of the decision loop in which the window advances: a chunk is revealed
ChunkRevealed == pc = "loop" /\ pointer' # pointer

\* the agent is invoked on exactly the revealed chunk, which lies after the chunk
\* of the previous invocation, and at most one fill follows, or a close fill and
\* a flip fill
InvokedOnceOnChunk ==
    LET chunk == {t \in df : t >= pointer /\ t < pointer'}
        n == Len(fills') - Len(fills)
    IN  /\ last'.invoked
        /\ last'.iter = last.iter + 1
        /\ ai_input'.new_chunk_df = chunk
        /\ \A t \in chunk : \A u \in ai_input.new_chunk_df : u < t
        /\ \/ n \in {0, 1}
           \/ /\ n = 2
              /\ fills'[Len(fills) + 1].action = "close"
              /\ fills'[Len(fills) + 2].action = "flip"

\* C24 as stated: every chunk the window reveals leads to exactly one agent
\* invocation, on that chunk and in chronological order, followed by at most one
\* fill, or exactly two when the decision is a flip, before the window advances
\* again.
C24_InvokedForEveryChunk ==
    [][ChunkRevealed => InvokedOnceOnChunk]_vars

\* C24 amended: the same for every non-empty chunk; an empty chunk is skipped:
\* the agent is not invoked and nothing is filled.
C24_InvokedForEveryNonEmptyChunk ==
    [][ChunkRevealed =>
          IF {t \in df : t >= pointer /\ t < pointer'} = {}
          THEN /\ ~last'.invoked
               /\ ai_input' = ai_input
               /\ fills' = fills
          ELSE InvokedOnceOnChunk]_vars

C24_Witness ==
    /\ last.invoked
    /\ last.executed
    /\ last.iter = 2
    /\ Len(stepped) = 1
    /\ Len(NewFills) = 1

\* ceil((eval_end - eval_start) / step)
MaxIterations == (eval_end - eval_start + step_delta - 1) \div step_delta

\* C25: no decision of the agent (any action string, any numeric or missing
\* size_pct and leverage) makes run() raise once the loop has started; the loop
\* runs at most ceil((eval_end - eval_start) / step) iterations, and the result
\* returned carries the fills, the equity curve and the metrics.
C25_RunNeverRaises ==
    /\ pc # "raised"
    /\ last.iter <= MaxIterations
    /\ pc = "done" =>
          /\ DOMAIN equity_curve = 1 .. Len(equity_curve)
          /\ DOMAIN fills = 1 .. Len(fills)
          /\ metrics.status = status

\* the largest equity among the first i rows of the returned curve
PeakEquity(i) ==
    CHOOSE m \in {equity_curve[k].equity : k \in 1 .. i} :
        \A k \in 1 .. i : RLe(equity_curve[k].equity, m)

\* C26: on every row of the equity curve a run returns, drawdown is
\* equity / running maximum of equity - 1, it is <= 0, and it is 0 on every row
\* whose equity is the running maximum.
C26_DrawdownNonPositive ==
    pc = "done" =>
        \A i \in 1 .. Len(equity_curve) :
            LET dd == equity_curve[i].drawdown
                eq == equity_curve[i].equity
            IN  /\ IsFinite(dd)
                /\ RLe(dd, Zero)
                /\ eq = PeakEquity(i) => dd = Zero
                /\ PeakEquity(i).n # 0 => dd = RSub(RDiv(eq, PeakEquity(i)), One)

\* C27: the metrics every run returns have a num_fills entry, equal to the
\* length of the returned fill log.
C27_NumFillsReported ==
    pc = "done" =>
        /\ "num_fills" \in DOMAIN metrics
        /\ metrics.num_fills = Len(fills)

\* the number of fills of the log whose action is in A
RECURSIVE FillsWith(_, _)
FillsWith(fs, A) ==
    IF fs = <<>> THEN 0
    ELSE FillsWith(Tail(fs), A) + (IF Head(fs).action \in A THEN 1 ELSE 0)

\* C28: in the metrics of every run num_trades is the number of fills with
\* action open, flip or resize, num_closes the number of fills with action
\* close, and num_trades + num_closes does not exceed the number of fills.
C28_TradeAndCloseCounts ==
    pc = "done" =>
        /\ metrics.num_trades = FillsWith(fills, {"open", "flip", "resize"})
        /\ metrics.num_closes = FillsWith(fills, {"close"})
        /\ metrics.num_trades + metrics.num_closes <= Len(fills)

C28_Witness ==
    /\ pc = "done"
    /\ equity_curve # <<>>
    /\ metrics.num_trades = 2
    /\ metrics.num_closes = 1
    /\ \E i \in 1 .. Len(fills) : fills[i].action = "flip"

\* start and end equity of the returned metrics are the first and last equity
\* of the returned curve, 0 for an empty curve
StartEndReported ==
    /\ metrics.start_equity =
          IF equity_curve = <<>> THEN Zero ELSE equity_curve[1].equity
    /\ metrics.end_equity =
          IF equity_curve = <<>> THEN Zero ELSE equity_curve[Len(equity_curve)].equity

\* (end / start - 1) * 100 on the reported start and end equity
ReturnPct ==
    RMul(RSub(RDiv(metrics.end_equity, metrics.start_equity), One), R(100))

\* C29 as stated: start and end equity are the first and last curve values (0
\* for an empty curve); total return is not-a-number whenever start equity is
\* 0, the empty curve included, and (end / start - 1) * 100 otherwise.
C29_ReturnNaNWheneverStartZero ==
    pc = "done" =>
        /\ StartEndReported
        /\ metrics.total_return_pct =
              IF metrics.start_equity = Zero THEN NaN ELSE ReturnPct

\* C29 amended: for an empty curve total return is 0; for a non-empty curve it
\* is not-a-number when start equity is 0 and (end / start - 1) * 100 otherwise.
C29_ReturnZeroOnEmptyCurve ==
    pc = "done" =>
        /\ StartEndReported
        /\ metrics.total_return_pct =
              IF equity_curve = <<>> THEN Zero
              ELSE IF metrics.start_equity = Zero THEN NaN
              ELSE ReturnPct

C29_Witness ==
    /\ pc = "done"
    /\ Len(equity_curve) >= 2
    /\ metrics.start_equity # Zero
    /\ metrics.start_equity # metrics.end_equity
    /\ metrics.total_return_pct = ReturnPct
    /\ RLt(metrics.total_return_pct, Zero)

\* the canonical action the specification gives a raw action name: case and
\* surrounding whitespace ignored, every synonym of either table resolved
CanonicalAction(raw_action) ==
    LET action == Lower(Strip(raw_action))
    IN  CASE action \in {"buy", "risk_on", "observe_up"} -> "long"
          [] action \in {"sell", "risk_off", "observe_down"} -> "short"
          [] action = "exit" -> "close"
          [] OTHER -> action

\* C30: whenever the engine executes a decision whose action name is a
\* recognized action or synonym (any case, any surrounding whitespace), the
\* decision it executes carries the canonical action of that name.
C30_SynonymsReachCanonical ==
    (last.executed /\ CanonicalAction(last.raw_action) \in VALID_ACTIONS) =>
        last.decision.action = CanonicalAction(last.raw_action)

(***************************************************************************)
(* The end-to-end scenario of tests/test_sim_engine.py.                    *)
(***************************************************************************)
\* _synthetic_df: 24 hourly bars, hour t at index t + 1
ScenarioClose ==
    <<100, 101, 102, 103, 104, 105, 106, 107, 108, 109, 110, 111,
      110, 109, 108, 107, 106, 105, 104, 103, 102, 101, 100, 99>>

\* open_ = [100] + close[:-1]
ScenarioOpen(t) == IF t = 0 THEN 100 ELSE ScenarioClose[t]

ScenarioBars == {t - 1 : t \in DOMAIN ScenarioClose}

ScenarioConfig ==
    [start_equity |-> R(100), fee_rate |-> Frac(1, 1000), step_hours |-> 4,
     max_leverage |-> 10, min_leverage |-> 1, default_size_pct |-> One,
     default_leverage |-> 1, allow_negative_equity |-> FALSE]

\* DummyAgent.run on its calls-th call
DummyAgent(calls) ==
    IF calls = 1
    THEN [action |-> Some("long"), size_pct |-> Some(One), leverage |-> Some(R(1))]
    ELSE [action |-> Some("close"), size_pct |-> None, leverage |-> None]

\* the window and engine of the test, and the same series under other evaluation
\* ranges and steps, with and without a gap of four missing bars
ScenarioInit ==
    /\ df \in {ScenarioBars, ScenarioBars \ (8 .. 11)}
    /\ eval_start \in {0, 4, 8}
    /\ eval_end \in {12, 16, 24}
    /\ step_delta \in {2, 4}
    /\ pointer = eval_start
    /\ ret = [op |-> "init", rows |-> {}, ptr |-> eval_start]
    /\ stepped = <<>>
    /\ opens = [t \in FillRows |-> ScenarioOpen(t)]
    /\ closes = [t \in eval_df |-> ScenarioClose[t + 1]]
    /\ config = ScenarioConfig
    /\ InitEngine
    /\ raw = NoRaw
    /\ norm = NoNorm
    /\ fetch = NoFetch

\* an iteration under DummyAgent
IterDummy == Iterate({DummyAgent(last.calls + 1)})

ScenarioNext == RunStart \/ IterEmptyChunk \/ IterDummy \/ Finish

SpecScenario == ScenarioInit /\ [][ScenarioNext]_vars

\* a further run() of the same engine on the same window counts as long as the
\* fill log is shorter than this
MaxFills == 2

\* run() called again on an engine whose earlier run has returned: as RunStart,
\* with the engine's cash, position, status, fills and checkpoints as the
\* earlier run left them (run() assigns none of them before the loop); the
\* agent decides as in the first run
RunAgain ==
    /\ pc = "done"
    /\ Len(fills) < MaxFills
    /\ pointer' = reset_pointer
    /\ ret' = [op |-> "reset", rows |-> {}, ptr |-> pointer]
    /\ stepped' = <<>>
    /\ last' = NoIter
    /\ ai_input' = NoInput
    /\ IF eval_df = {}
       THEN /\ equity_curve' = <<>>
            /\ metrics' = compute_metrics(<<>>, <<>>, "ok")
            /\ pc' = "done"
       ELSE /\ pc' = "loop"
            /\ UNCHANGED <<equity_curve, metrics>>
    /\ UNCHANGED <<df, opens, closes, eval_start, eval_end, step_delta>>
    /\ UNCHANGED <<config, position, cash, status, fills, state_events,
                   ledger_log, raw, norm, fetch>>

\* the scenario's engine and window on the full series, which has no empty chunk
RerunInit == ScenarioInit /\ df = ScenarioBars

RerunNext == RunStart \/ IterDummy \/ Finish \/ RunAgain

SpecRerun == RerunInit /\ [][RerunNext]_vars

(***************************************************************************)
(* _execute called decision after decision, as the loop of run() calls it,  *)
(* at decision and fill prices of either sign.                             *)
(***************************************************************************)
\* float(chunk["close"].iloc[-1]) and float(next_rows.iloc[0]["open"]): the frame's
\* prices are not validated
CallPrices == {-1, 0, 1, 2}

ExecuteDecisions ==
    {[action |-> Some("close"), size_pct |-> None, leverage |-> None],
     [action |-> Some("long"), size_pct |-> Some(Zero), leverage |-> None],
     [action |-> Some("short"), size_pct |-> Some(Zero), leverage |-> Some(R(2))],
     [action |-> Some("long"), size_pct |-> Some(One), leverage |-> Some(R(2))],
     [action |-> Some("long"), size_pct |-> Some(Frac(1, 2)), leverage |-> None],
     [action |-> Some("short"), size_pct |-> Some(Frac(1, 2)), leverage |-> None]}

\* an engine as constructed; no window is stepped in this specification
ExecuteInit ==
    /\ df = {}
    /\ eval_start = 0
    /\ eval_end = 1
    /\ step_delta = 1
    /\ pointer = eval_start
    /\ ret = [op |-> "init", rows |-> {}, ptr |-> eval_start]
    /\ stepped = <<>>
    /\ opens = <<>>
    /\ closes = <<>>
    /\ config \in {DefaultConfig, [DefaultConfig EXCEPT !.fee_rate = Zero]}
    /\ InitEngine
    /\ raw = NoRaw
    /\ norm = NoNorm
    /\ fetch = NoFetch

\* one pass through the loop body from the parsed decision on: equity at the
\* decision price, _execute at the fill price, the bankruptcy test
ExecuteCall ==
    /\ status = "ok"
    /\ Len(fills) < MaxFills
    /\ \E d \in ExecuteDecisions, dp \in CallPrices \ {-1}, fp \in CallPrices :
          LET decision == parse_decision(d)
              decision_price == R(dp)
              fill_price == R(fp)
              fill_time == Len(fills)
              equity_at_decision == equity_at_price(cash, position, decision_price)
          IN  \E L2 \in {execute(Ledger, decision, fill_time, fill_price,
                                  equity_at_decision)} :
                /\ last' = [NoIter EXCEPT !.iter = 1, !.calls = 1,
                                          !.invoked = TRUE, !.executed = TRUE,
                                          !.raw_action = get_action(d),
                                          !.decision = decision,
                                          !.decision_price = decision_price,
                                          !.equity_at_decision = equity_at_decision,
                                          !.fill_time = fill_time,
                                          !.fill_price = fill_price,
                                          !.cash_before = cash,
                                          !.position_before = position,
                                          !.nfills_before = Len(fills)]
                /\ cash' = L2.cash
                /\ position' = L2.position
                /\ fills' = L2.fills
                /\ state_events' = L2.events
                /\ status' = IF ~config.allow_negative_equity
                                /\ RLe(equity_at_price(L2.cash, L2.position, fill_price),
                                       Zero)
                             THEN "bankrupt" ELSE status
    /\ UNCHANGED winVars
    /\ UNCHANGED <<ret, config, pc, ai_input, equity_curve, metrics, ledger_log,
                   stepped, raw, norm, fetch>>

ExecuteNext == ExecuteCall

SpecExecute == ExecuteInit /\ [][ExecuteNext]_vars

(***************************************************************************)
(* Runs under an agent that also asks for tiny position sizes.             *)
(***************************************************************************)
\* {"action": side, "size_pct": 1e-300}: a size inside [0, 1] that clamp_size_pct
\* leaves as it is
TinySizeDecision(side) == [action |-> Some(side), size_pct |-> Some(Tiny), leverage |-> None]

RoundingDecisions ==
    {[action |-> Some("hold"), size_pct |-> None, leverage |-> None],
     [action |-> Some("close"), size_pct |-> None, leverage |-> None],
     [action |-> Some("long"), size_pct |-> Some(One), leverage |-> Some(R(2))],
     [action |-> Some("short"), size_pct |-> Some(Frac(1, 2)), leverage |-> None],
     TinySizeDecision("long"), TinySizeDecision("short")}

IterRounding == Iterate(RoundingDecisions)

RoundingNext == RunStart \/ IterEmptyChunk \/ IterRounding \/ Finish

SpecRounding == Init /\ [][RoundingNext]_vars

(***************************************************************************)
(* BinanceFapiKlinesSource.fetch (data/sources.py).  Times are integer      *)
(* milliseconds; a batch is known by its length class and the open time of  *)
(* its last row, which is all the loop reads of it.                         *)
(***************************************************************************)
\* start and end of a fetch lie in 0 .. MaxMs
MaxMs == 3

\* what the server may answer: any batch, whatever was asked for
BatchSizes == {"empty", "short", "full"}
LastOpenTimes == -1 .. MaxMs

\* faulty variant of next_backoff: the delay is not capped
next_backoff_uncapped(backoff_seconds) == backoff_seconds * 2

\* min(backoff_seconds * 2, 16.0)
next_backoff(backoff_seconds) ==
    IF backoff_seconds * 2 < 16 THEN backoff_seconds * 2 ELSE 16

\* faulty variant of retries_exhausted: one more failure is tolerated
retries_exhausted_late(failures) == failures > 5

\* failures >= 5
retries_exhausted(failures) == failures >= 5

\* a constructed engine and window that take no step while fetch runs
FetchInit ==
    /\ df = {}
    /\ eval_start = 0
    /\ eval_end = 1
    /\ step_delta = 1
    /\ pointer = eval_start
    /\ ret = [op |-> "init", rows |-> {}, ptr |-> eval_start]
    /\ stepped = <<>>
    /\ opens = <<>>
    /\ closes = <<>>
    /\ config = DefaultConfig
    /\ InitEngine
    /\ raw = NoRaw
    /\ norm = NoNorm
    /\ \E s \in 0 .. MaxMs, e \in 0 .. MaxMs :
          fetch = [NoFetch EXCEPT !.start_ms = s, !.end_ms = e]

FetchFrame ==
    /\ UNCHANGED winVars
    /\ UNCHANGED engVars
    /\ UNCHANGED <<ret, stepped, raw, norm>>

\* fetch() up to the loop: the range test and the locals
FetchStart ==
    /\ fetch.pc = "idle"
    /\ fetch' = IF fetch.start_ms >= fetch.end_ms
                THEN [fetch EXCEPT !.pc = "raised", !.result = "ValueError"]
                ELSE [fetch EXCEPT !.pc = "loop", !.current_start_ms = fetch.start_ms,
                                   !.backoff_seconds = 1, !.failures = 0]
    /\ FetchFrame

\* the while test holds and requests.get is called
FetchRequest ==
    /\ fetch.pc = "loop"
    /\ fetch.current_start_ms < fetch.end_ms
    /\ fetch' = [fetch EXCEPT !.pc = "waiting"]
    /\ FetchFrame

\* the while test fails: the frame is built and returned
FetchLoopEnd ==
    /\ fetch.pc = "loop"
    /\ fetch.current_start_ms >= fetch.end_ms
    /\ fetch' = [fetch EXCEPT !.pc = "returned", !.result = "frame"]
    /\ FetchFrame

\* status 401, 403 or 451
FetchBlocked ==
    /\ fetch.pc = "waiting"
    /\ fetch' = [fetch EXCEPT !.pc = "raised", !.result = "FapiBlockedError",
                              !.response = "blocked"]
    /\ FetchFrame

\* status 418 or 429: sleep, double the delay, continue
FetchRateLimited ==
    /\ fetch.pc = "waiting"
    /\ fetch' = [fetch EXCEPT !.pc = "loop", !.response = "rate_limited",
                              !.slept = fetch.backoff_seconds,
                              !.backoff_seconds = next_backoff(fetch.backoff_seconds)]
    /\ FetchFrame

\* requests.get, raise_for_status or response.json raises a RequestException
FetchFailure ==
    /\ fetch.pc = "waiting"
    /\ LET failures == fetch.failures + 1
       IN  fetch' = [fetch EXCEPT !.response = "failure",
                                  !.failures = failures,
                                  !.failed_since_batch = fetch.failed_since_batch + 1,
                                  !.slept = fetch.backoff_seconds,
                                  !.backoff_seconds = next_backoff(fetch.backoff_seconds),
                                  !.pc = IF retries_exhausted(failures)
                                         THEN "raised" ELSE "loop",
                                  !.result = IF retries_exhausted(failures)
                                             THEN "RuntimeError" ELSE fetch.result]
    /\ FetchFrame

\* a batch arrives: the counters are reset, the batch is kept, the start advances
FetchBatch ==
    /\ fetch.pc = "waiting"
    /\ \E size \in BatchSizes, last_open_time_ms \in LastOpenTimes :
          LET next_start_ms == last_open_time_ms + 1
              got == [fetch EXCEPT !.response = "batch", !.failures = 0,
                                   !.failed_since_batch = 0, !.backoff_seconds = 1]
              done == [pc |-> "returned", result |-> "frame"]
          IN  fetch' =
                IF size = "empty"
                THEN [got EXCEPT !.pc = done.pc, !.result = done.result]
                ELSE IF next_start_ms <= fetch.current_start_ms
                THEN [got EXCEPT !.batches = fetch.batches + 1,
                                 !.pc = done.pc, !.result = done.result]
                ELSE IF size = "short"
                THEN [got EXCEPT !.batches = fetch.batches + 1,
                                 !.current_start_ms = next_start_ms,
                                 !.pc = done.pc, !.result = done.result]
                ELSE [got EXCEPT !.batches = fetch.batches + 1,
                                 !.current_start_ms = next_start_ms,
                                 !.pc = "loop"]
    /\ FetchFrame

FetchNext ==
    \/ FetchStart \/ FetchRequest \/ FetchLoopEnd \/ FetchBlocked
    \/ FetchRateLimited \/ FetchFailure \/ FetchBatch

SpecFetch == FetchInit /\ [][FetchNext]_vars

\* fetch keeps running, and every request is answered
SpecFetchLive == FetchInit /\ [][FetchNext]_vars /\ WF_vars(FetchNext)

\* the run of test_engine_next_open_fills_and_equity_behavior has returned
ScenarioDone ==
    /\ pc = "done"
    /\ df = ScenarioBars
    /\ eval_start = 4
    /\ eval_end = 12
    /\ step_delta = 4

\* C31: the end-to-end scenario ends with exactly one open fill, at 08:00, and
\* exactly one close fill, at 12:00, both with a positive fee, and with an end
\* equity different from the start equity.
C31_ScenarioOpenAndCloseFills ==
    ScenarioDone =>
        /\ \E i \in DOMAIN fills :
              /\ FillsWith(fills, {"open"}) = 1
              /\ fills[i].action = "open"
              /\ fills[i].time = 8
              /\ RLt(Zero, fills[i].fee)
        /\ \E i \in DOMAIN fills :
              /\ FillsWith(fills, {"close"}) = 1
              /\ fills[i].action = "close"
              /\ fills[i].time = 12
              /\ RLt(Zero, fills[i].fee)
        /\ metrics.end_equity # metrics.start_equity

\* C32: every run of an engine, a re-run on the same window included, enters
\* its decision loop with start_equity cash, a flat position and an empty fill
\* log (so that a deterministic agent reproduces the first run's result).
C32_EveryRunStartsFresh ==
    (pc = "loop" /\ last.iter = 0) =>
        /\ cash = config.start_equity
        /\ position = NewPosition
        /\ fills = <<>>

\* C33: the engine's cash is the equity_after of the last recorded fill
\* (start_equity when there is none), and the checkpoint list has one entry per
\* fill, in the same order, each with that fill's time, the cash after it and
\* the position after it: flat after a close, the fill's side and quantity
\* otherwise, and the engine's own cash and position for the newest fill.
C33_CashAndCheckpointsFollowFills ==
    /\ cash = IF fills = <<>> THEN config.start_equity
              ELSE fills[Len(fills)].equity_after
    /\ Len(state_events) = Len(fills)
    /\ \A i \in 1 .. Len(fills) :
          /\ state_events[i].ts = fills[i].time
          /\ state_events[i].cash = fills[i].equity_after
          /\ IF fills[i].action = "close"
             THEN state_events[i].position = NewPosition
             ELSE /\ state_events[i].position.side = fills[i].side
                  /\ state_events[i].position.qty = fills[i].qty
    /\ Len(fills) > last.nfills_before =>
          /\ state_events[Len(fills)].cash = cash
          /\ state_events[Len(fills)].position = position

\* _execute has reached _resize_position in the last iteration: a long or short
\* decision on a position of that side, with a target quantity > 0
LastTarget ==
    target_qty(last.equity_at_decision, last.decision.size_pct, last.decision.leverage,
               last.fill_price)

ReachedResize ==
    /\ last.executed
    /\ last.decision.action \in {"long", "short"}
    /\ last.position_before.side = last.decision.action
    /\ RLt(Zero, LastTarget.qty)

\* C34: when _execute reaches _resize_position the position keeps its side and
\* is never left flat: either nothing changed (the quantity already was the
\* target, within 1e-12) or the quantity now is the target quantity and a
\* resize fill was recorded; cash never changes without a fill.
C34_ResizeNeverFlat ==
    ReachedResize =>
        /\ position.side = last.position_before.side
        /\ \/ /\ position = last.position_before
              /\ cash = last.cash_before
              /\ Len(fills) = last.nfills_before
           \/ /\ position.qty = LastTarget.qty
              /\ Len(fills) = last.nfills_before + 1
              /\ fills[Len(fills)].action = "resize"

\* C35: a long or short decision whose target quantity is <= 0 changes nothing,
\* whatever the position: cash, position and the fill log (and with it the
\* checkpoint list) are as they were before the call.
C35_ZeroTargetNoOp ==
    (/\ last.executed
     /\ last.decision.action \in {"long", "short"}
     /\ RLe(LastTarget.qty, Zero)) =>
        /\ cash = last.cash_before
        /\ position = last.position_before
        /\ Len(fills) = last.nfills_before
        /\ Len(state_events) = last.nfills_before

C35_Witness ==
    /\ last.executed
    /\ last.decision.action = "long"
    /\ last.position_before.side = "short"
    /\ RLt(Zero, last.decision.size_pct)
    /\ RLt(Zero, last.equity_at_decision)
    /\ RLe(last.fill_price, Zero)
    /\ LastTarget.qty = Zero
    /\ position = last.position_before
    /\ Len(fills) = 1

\* the number of non-empty chunks of the evaluation range
NonEmptyChunks == Cardinality({k \in 1 .. MaxIterations : ConstructionChunk(k) # {}})

\* the bars at which the run has filled; each decision fills at one bar of its own
FillTimes == {fills[i].time : i \in DOMAIN fills}

\* C36: a decision taken on the chunk that holds the last bar of the evaluation
\* range (the last non-empty chunk) is never executed; the fills of a run over
\* k non-empty chunks come from at most k - 1 decisions; and every fill
\* timestamp is a bar inside [eval_start, eval_end).
C36_LastDecisionNeverFilled ==
    /\ (last.invoked /\ EvalBars # {} /\ last.decision_time = SetMax(EvalBars)) =>
          (~last.executed /\ Len(fills) = last.nfills_before)
    /\ Cardinality(FillTimes) <= (IF NonEmptyChunks = 0 THEN 0 ELSE NonEmptyChunks - 1)
    /\ \A i \in DOMAIN fills :
          fills[i].time \in EvalBars /\ fills[i].time >= eval_start /\ fills[i].time < eval_end

C36_Witness ==
    /\ pc = "done"
    /\ NonEmptyChunks = 3
    /\ Cardinality(FillTimes) = 2
    /\ last.invoked
    /\ ~last.executed
    /\ last.decision_time = SetMax(EvalBars)
    /\ fills[Len(fills)].time = last.decision_time

\* C37: the chunks step() has returned since the window's start (or last reset)
\* are pairwise disjoint and in ascending time order, together they are exactly
\* the rows of [eval_start, pointer), which is the whole evaluation range once
\* is_done(); the pointer stays within [eval_start, eval_end], on the grid of
\* the steps, so that is_done() holds after ceil((eval_end - eval_start) / step)
\* calls at the latest.
C37_ChunksPartitionRange ==
    /\ \A i \in 1 .. Len(stepped) : \A j \in 1 .. Len(stepped) :
          i < j => stepped[i] < stepped[j]
    /\ {stepped[i] : i \in 1 .. Len(stepped)} = {t \in df : t >= eval_start /\ t < pointer}
    /\ is_done => {stepped[i] : i \in 1 .. Len(stepped)} = EvalBars
    /\ pointer >= eval_start /\ pointer <= eval_end
    /\ StepsTo(pointer) <= MaxIterations
    /\ pointer = IF eval_start + StepsTo(pointer) * step_delta < eval_end
                 THEN eval_start + StepsTo(pointer) * step_delta ELSE eval_end
    /\ StepsTo(pointer) = MaxIterations => is_done

C37_Witness ==
    /\ is_done
    /\ ret.op = "step"
    /\ ret.rows # {}
    /\ MaxIterations = 2
    /\ step_delta = 2
    /\ Len(stepped) = 3
    /\ ret.ptr > eval_start

\* the delay fetch slept on its last retry and the delay it holds for the next
BackoffInRange ==
    /\ fetch.backoff_seconds >= 1 /\ fetch.backoff_seconds <= 16
    /\ fetch.slept # 0 => (fetch.slept >= 1 /\ fetch.slept <= 16)

\* C38: the backoff delay stays within [1, 16] seconds; a rate-limit response
\* or a request failure sleeps the current delay and doubles it (capped at 16),
\* a batch resets it to 1; RuntimeError is raised exactly at the 5th request
\* failure since the last batch; an access-blocked response raises
\* FapiBlockedError at once, without sleeping or retrying.
C38_BackoffAndRetries ==
    /\ [](BackoffInRange)
    /\ [][fetch'.response \in {"rate_limited", "failure"} /\ fetch.pc = "waiting" =>
            /\ fetch'.slept = fetch.backoff_seconds
            /\ fetch'.backoff_seconds =
                  (IF fetch.backoff_seconds >= 8 THEN 16 ELSE 2 * fetch.backoff_seconds)]_vars
    /\ [][fetch'.response = "batch" /\ fetch.pc = "waiting" =>
            fetch'.backoff_seconds = 1]_vars
    /\ [](fetch.result = "RuntimeError" <=>
              (fetch.response = "failure" /\ fetch.failed_since_batch = 5))
    /\ [](fetch.failed_since_batch <= 5)
    /\ [](fetch.response = "blocked" =>
              (fetch.pc = "raised" /\ fetch.result = "FapiBlockedError"))
    /\ [][fetch'.response = "blocked" /\ fetch.pc = "waiting" =>
            /\ fetch'.slept = fetch.slept
            /\ fetch'.backoff_seconds = fetch.backoff_seconds]_vars

C38_Witness ==
    /\ fetch.result = "RuntimeError"
    /\ fetch.failed_since_batch = 5
    /\ fetch.batches >= 1
    /\ fetch.slept = 16
    /\ fetch.backoff_seconds = 16

\* C39: every fetch ends, by returning a frame or by raising, whatever the
\* server answers.
C39_FetchTerminates == <>(fetch.pc \in {"returned", "raised"})

====
